---- MODULE Spec2Model ----
(***************************************************************************)
(* A model of matplotlib_context_writer/implementations.py: the video      *)
(* session (_SaveToVidEnterVisualizer over _SaveInDirEnteredVisualizer),   *)
(* and the live session (_LiveVideoEnterVisualizer).                       *)
(*                                                                         *)
(* The file system is a function from paths to file contents.  A path is   *)
(* a record [dir, name]; a file name is a record [stem, num, ext] whose    *)
(* num is the sequence of decimal digits printed by the format ":04d".     *)
(* The external collaborators (savefig, ffmpeg, mv) take their outcome     *)
(* from the environment: each action draws it with \E.                     *)
(*                                                                         *)
(* The program is single-threaded: every handler is one atomic action,     *)
(* and two sessions interleave at the granularity of whole calls.          *)
(***************************************************************************)
EXTENDS Integers, Sequences, FiniteSets, TLC

VARIABLES
    visualizer,   \* the VideoVisualizer: [made, video_path, fps, dpi]
    enterObj,     \* per session: the fields of _SaveToVidEnterVisualizer
    entered,      \* per session: the fields of _SaveInDirEnteredVisualizer
    pc,           \* per session: where the caller's scope is
    fs,           \* the file system: path -> content
    tmpdirs,      \* the temporary directories that exist
    nextTmp,      \* how many names tempfile has handed out
    log,          \* per session: the external commands run, in order
    stepLog,      \* per session: the step() calls made: [index, name, raised]
    stepRaised,   \* per session: what the last step() call raised
    inflight,     \* per session: the exception handed to __exit__
    result,       \* per session: what the caller of the scope observes
    lastMoved,    \* the session whose mv last placed a file at video_path
    liveVis,      \* the LiveVideoVisualizer: [made, fps]
    liveEnterObj, \* the fields of _LiveVideoEnterVisualizer
    liveEntered,  \* the fields of _LiveVideoEnteredVisualizer
    livePc,       \* where the caller's live scope is
    liveCalls,    \* how many times the live step() was called
    liveClock,    \* total time the caller was suspended: <<num, den>>
    liveLast,     \* the last live step(): [afterExit, raised, blocked]
    liveInflight, \* the exception handed to the live __exit__
    liveResult,   \* what the caller of the live scope observes
    nmIndex,      \* a long directory-backed session: its index field
    nmHist,       \* ... frames it has recorded, oldest first: [index, name]
    nmCalls,      \* ... step() calls made since the initial state
    showVis,      \* the ShowVisualizer: [made]
    showEnterObj, \* the fields of _ShowEnterVisualizer
    showEntered,  \* the fields of _ShowEnteredVisualizer
    showPc,       \* where the caller's display scope is
    showAt,       \* the statement of the display step() to run next, 0: none
    showCalls,    \* how many times the display step() was called
    showTrace,    \* what the display step() calls did, in order
    showLast,     \* how the last display step() ended
    stdinLines,   \* the lines typed by the operator and not yet read
    stdinTyped,   \* the lines the operator has typed in all
    stdinClosed,  \* whether standard input has reached its end
    showInflight, \* the exception handed to the display __exit__
    showResult    \* what the caller of the display scope observes

videoVars == <<visualizer, enterObj, entered, pc, fs, tmpdirs, nextTmp, log,
               stepLog, stepRaised, inflight, result, lastMoved>>
liveVars == <<liveVis, liveEnterObj, liveEntered, livePc, liveCalls, liveClock,
              liveLast, liveInflight, liveResult>>
nameVars == <<nmIndex, nmHist, nmCalls>>
showVars == <<showVis, showEnterObj, showEntered, showPc, showAt, showCalls,
              showTrace, showLast, stdinLines, stdinTyped, stdinClosed,
              showInflight, showResult>>
vars == <<videoVars, liveVars, nameVars, showVars>>

\* what the actions of one session variant leave alone
nonVideoVars == <<liveVars, nameVars, showVars>>
nonLiveVars == <<videoVars, nameVars, showVars>>
nonNameVars == <<videoVars, liveVars, showVars>>
nonShowVars == <<videoVars, liveVars, nameVars>>

----------------------------------------------------------------------------
(* Bounds of the model. *)

\* step() calls on the video sessions' handles, all sessions together
\* (inside the scopes or after them)
MaxSteps == 3
\* step() calls on the long directory-backed session
MaxNameSteps == 3
\* step() calls on the display session's handle
MaxShowSteps == 2
\* lines the operator types
MaxLines == 2
\* the long session starts within NameSpan of 0 and of each power of ten
\* up to 10^PadWidth
NameSpan == 2
\* step() calls on the live session
MaxLiveSteps == 3
\* the live frame rates tried are 1..MaxLiveFps and the default
MaxLiveFps == 3

(* Constants of the program. *)

\* f"{self.index:04d}"
PadWidth == 4
\* VideoVisualizer(video_path, fps=30, ...), LiveVideoVisualizer(fps=30)
DefaultFps == 30
\* VideoVisualizer(video_path, fps=2, dpi=50) in demo_video_visualizer
DemoFps == 2
\* dpi: int=400
DefaultDpi == 400

Sessions == {1, 2}

TmpNames == <<"/tmp/tmpA", "/tmp/tmpB">>

----------------------------------------------------------------------------
(* Names, paths and contents. *)

NoName == [stem |-> "None", num |-> <<>>, ext |-> ""]
NoPath == [dir |-> "None", name |-> NoName]

\* Path.cwd() / "demo_video.mp4"
VideoPath == [dir |-> "cwd", name |-> [stem |-> "demo_video", num |-> <<>>, ext |-> ".mp4"]]

RECURSIVE Digits(_)
Digits(n) == IF n < 10 THEN <<n>> ELSE Digits(n \div 10) \o <<n % 10>>

ZeroPad(ds, w) ==
    IF Len(ds) >= w THEN ds ELSE [i \in 1..(w - Len(ds)) |-> 0] \o ds

\* f"{index:04d}": at least PadWidth digits, zero-filled on the left
Format04d(index) == ZeroPad(Digits(index), PadWidth)

\* f"{self.prefix}{self.index:04d}.png"
FrameFileName(prefix, index) ==
    [stem |-> prefix, num |-> Format04d(index), ext |-> ".png"]

\* self.save_dir / f"{self.prefix}{self.index:04d}.png"
FramePath(dir, prefix, index) ==
    [dir |-> dir, name |-> FrameFileName(prefix, index)]

\* f"{self.temp_path}/{self.temp_video_name}.mp4"
TempVideoPath(obj) ==
    [dir |-> obj.temp_path,
     name |-> [stem |-> obj.temp_video_name, num |-> <<>>, ext |-> ".mp4"]]

\* a file that was at video_path before the session
StaleFile == [kind |-> "stale", frames |-> <<>>, complete |-> TRUE, fps |-> 0]

\* the image savefig writes for the k-th step() call of session s
PngFile(s, k, complete) ==
    [kind |-> "png", frames |-> <<[sess |-> s, frame |-> k]>>,
     complete |-> complete, fps |-> 0]

RECURSIVE Concat(_)
Concat(seqs) == IF seqs = <<>> THEN <<>> ELSE Head(seqs) \o Concat(Tail(seqs))

\* the video ffmpeg encodes from the frame files inp at the given rate
Mp4File(inp, fps, complete) ==
    [kind |-> "mp4", frames |-> Concat([i \in 1..Len(inp) |-> inp[i].frames]),
     complete |-> complete, fps |-> fps]

FsWrite(fsys, p, c) == [q \in DOMAIN fsys \cup {p} |-> IF q = p THEN c ELSE fsys[q]]

FsRemove(fsys, P) == [q \in DOMAIN fsys \ P |-> fsys[q]]

FilesIn(fsys, dir) == {p \in DOMAIN fsys : p.dir = dir}

----------------------------------------------------------------------------
(* Objects before they are constructed. *)

NoVisualizer == [made |-> FALSE, video_path |-> NoPath, fps |-> 0, dpi |-> 0]

NoEnterObj ==
    [video_path |-> NoPath, temp_path |-> "None",
     temp_path_context_manager |-> "None", prefix |-> "", fps |-> 0,
     temp_video_name |-> "", dpi |-> 0]

NoEntered == [save_dir |-> "None", index |-> 0, prefix |-> "", dpi |-> 0]

NoLiveVis == [made |-> FALSE, fps |-> 0]

NoLiveEnterObj == [fps |-> 0]

NoLiveEntered == [fps |-> 0]

NoLiveStep == [afterExit |-> FALSE, raised |-> "None", blocked |-> <<0, 1>>]

InitVideo ==
    /\ visualizer = NoVisualizer
    /\ enterObj = [s \in Sessions |-> NoEnterObj]
    /\ entered = [s \in Sessions |-> NoEntered]
    /\ pc = [s \in Sessions |-> "none"]
    /\ fs \in {<<>>, FsWrite(<<>>, VideoPath, StaleFile)}
    /\ tmpdirs = {}
    /\ nextTmp = 0
    /\ log = [s \in Sessions |-> <<>>]
    /\ stepLog = [s \in Sessions |-> <<>>]
    /\ stepRaised = [s \in Sessions |-> "None"]
    /\ inflight = [s \in Sessions |-> "None"]
    /\ result = [s \in Sessions |-> "pending"]
    /\ lastMoved = 0

InitLive ==
    /\ liveVis = NoLiveVis
    /\ liveEnterObj = NoLiveEnterObj
    /\ liveEntered = NoLiveEntered
    /\ livePc = "none"
    /\ liveCalls = 0
    /\ liveClock = <<0, 1>>
    /\ liveLast = NoLiveStep
    /\ liveInflight = "None"
    /\ liveResult = "pending"

\* no long session under way
InitNoNames ==
    /\ nmIndex = 0
    /\ nmHist = <<>>
    /\ nmCalls = 0

NoShowVis == [made |-> FALSE]

NoShowEnterObj == [figure |-> "None"]

NoShowEntered == [fig |-> "None"]

InitShow ==
    /\ showVis = NoShowVis
    /\ showEnterObj = NoShowEnterObj
    /\ showEntered = NoShowEntered
    /\ showPc = "none"
    /\ showAt = 0
    /\ showCalls = 0
    /\ showTrace = <<>>
    /\ showLast = "None"
    /\ stdinLines = 0
    /\ stdinTyped = 0
    /\ stdinClosed = FALSE
    /\ showInflight = "None"
    /\ showResult = "pending"

Init == InitVideo /\ InitLive /\ InitNoNames /\ InitShow

----------------------------------------------------------------------------
(* The environment's answers to the external calls. *)

\* fig.savefig: written, refused (nothing written), or cut short
WriteOutcomes == {"ok", "error", "error_partial"}

\* ffmpeg: encoded, not on PATH, failed leaving nothing, failed leaving a
\* truncated output file
EncoderOutcomes == {"ok", "unavailable", "error", "error_partial"}

VideoFpsValues == {DemoFps}

----------------------------------------------------------------------------
(* VideoVisualizer *)

\* VideoVisualizer.__init__
VideoVisualizer_init(f) ==
    /\ ~visualizer.made
    /\ visualizer' = [made |-> TRUE, video_path |-> VideoPath, fps |-> f,
                      dpi |-> DefaultDpi]
    /\ UNCHANGED <<enterObj, entered, pc, fs, tmpdirs, nextTmp, log, stepLog,
                   stepRaised, inflight, result, lastMoved>>
    /\ UNCHANGED nonVideoVars

\* _SaveToVidEnterVisualizer.__init__
NewEnterObj(vis) ==
    [video_path |-> vis.video_path, temp_path |-> "None",
     temp_path_context_manager |-> "None", prefix |-> "image_",
     fps |-> vis.fps, temp_video_name |-> "video", dpi |-> vis.dpi]

\* VideoVisualizer.enter(fig): builds the enter-object, nothing else.
\* Sessions are numbered in the order their enter-objects are built.
VideoVisualizer_enter(s) ==
    /\ visualizer.made
    /\ pc[s] = "none"
    /\ \A t \in Sessions : t < s => pc[t] # "none"
    /\ enterObj' = [enterObj EXCEPT ![s] = NewEnterObj(visualizer)]
    /\ pc' = [pc EXCEPT ![s] = "constructed"]
    /\ UNCHANGED <<visualizer, entered, fs, tmpdirs, nextTmp, log, stepLog,
                   stepRaised, inflight, result, lastMoved>>
    /\ UNCHANGED nonVideoVars

\* an external command a session ran, with its exit status and, for the
\* encoder, the frames it read and the rate it was given
Event(cmd, status, frames, fps) ==
    [cmd |-> cmd, status |-> status, frames |-> frames, fps |-> fps]

\* (mutant) every session is handed the same directory
TempDirName_Shared(n) == TmpNames[1]

\* tempfile.TemporaryDirectory(): a directory under a name never used before
TempDirName(n) == TmpNames[n + 1]

\* _SaveInDirEnteredVisualizer.__init__
NewEntered(save_dir, prefix, dpi) ==
    [save_dir |-> save_dir, index |-> 0, prefix |-> prefix, dpi |-> dpi]

\* _SaveToVidEnterVisualizer.__enter__
SaveToVid_enter(s) ==
    /\ pc[s] = "constructed"
    /\ nextTmp < Len(TmpNames)
    /\ LET d == TempDirName(nextTmp)
           obj == [enterObj[s] EXCEPT !.temp_path_context_manager = d,
                                      !.temp_path = d]
       IN /\ tmpdirs' = tmpdirs \cup {d}
          /\ nextTmp' = nextTmp + 1
          /\ enterObj' = [enterObj EXCEPT ![s] = obj]
          /\ entered' = [entered EXCEPT
                           ![s] = NewEntered(obj.temp_path, obj.prefix, obj.dpi)]
          /\ log' = [log EXCEPT ![s] = Append(@, Event("mkdtemp", 0, <<>>, 0))]
    /\ pc' = [pc EXCEPT ![s] = "active"]
    /\ UNCHANGED <<visualizer, fs, stepLog, stepRaised, inflight, result,
                   lastMoved>>
    /\ UNCHANGED nonVideoVars

----------------------------------------------------------------------------
(* _SaveInDirEnteredVisualizer.step *)

\* fig.savefig(path): the file system after the call
SaveFig(fsys, dirs, p, outcome, s, k) ==
    IF p.dir \notin dirs THEN fsys
    ELSE IF outcome = "ok" THEN FsWrite(fsys, p, PngFile(s, k, TRUE))
    ELSE IF outcome = "error_partial" THEN FsWrite(fsys, p, PngFile(s, k, FALSE))
    ELSE fsys

\* the answers savefig can get: a missing directory is always refused
SaveFigOutcomes(dirs, dir) == IF dir \in dirs THEN WriteOutcomes ELSE {"error"}

\* whether fig.savefig(path) raises
SaveFigRaises(dirs, p, outcome) == p.dir \notin dirs \/ outcome # "ok"

\* (mutant) the index is never advanced
IndexAfterStep_Stuck(index, raised) == index

\* (mutant) the index is advanced even when savefig raised
IndexAfterStep_Always(index, raised) == index + 1

\* the index after step(): line 34 runs only when savefig returned
IndexAfterStep(index, raised) == IF raised THEN index ELSE index + 1

RECURSIVE SumCalls(_)
SumCalls(S) ==
    IF S = {} THEN 0
    ELSE LET s == CHOOSE x \in S : TRUE
         IN Len(stepLog[s]) + SumCalls(S \ {s})

TotalCalls == SumCalls(Sessions)

\* step() on the handle of session s, inside its scope or after it
SaveInDir_step(s) ==
    /\ pc[s] \in {"active", "exited"}
    /\ TotalCalls < MaxSteps
    /\ \E outcome \in SaveFigOutcomes(tmpdirs, entered[s].save_dir) :
         LET ent == entered[s]
             p == FramePath(ent.save_dir, ent.prefix, ent.index)
             raised == SaveFigRaises(tmpdirs, p, outcome)
         IN /\ fs' = SaveFig(fs, tmpdirs, p, outcome, s, Len(stepLog[s]))
            /\ stepLog' = [stepLog EXCEPT
                             ![s] = Append(@, [index |-> ent.index,
                                               name |-> p.name,
                                               raised |-> raised])]
            /\ entered' = [entered EXCEPT
                             ![s].index = IndexAfterStep(ent.index, raised)]
            /\ stepRaised' = [stepRaised EXCEPT
                                ![s] = IF raised THEN "OSError" ELSE "None"]
    /\ UNCHANGED <<visualizer, enterObj, pc, tmpdirs, nextTmp, log, inflight,
                   result, lastMoved>>
    /\ UNCHANGED nonVideoVars

----------------------------------------------------------------------------
(* _SaveToVidEnterVisualizer.__exit__ *)

\* the files prefix%04d.png of dir, from index i on, up to the first gap
RECURSIVE ReadFrames(_, _, _, _)
ReadFrames(fsys, dir, prefix, i) ==
    LET p == FramePath(dir, prefix, i)
    IN IF p \in DOMAIN fsys
       THEN <<fsys[p]>> \o ReadFrames(fsys, dir, prefix, i + 1)
       ELSE <<>>

\* os.system("ffmpeg -framerate fps -i temp_path/prefix%04d.png ...
\*            temp_path/temp_video_name.mp4")
RunFfmpeg(st, obj, outcome) ==
    LET inp == IF obj.temp_path \in st.tmpdirs
               THEN ReadFrames(st.fs, obj.temp_path, obj.prefix, 0)
               ELSE <<>>
        good == /\ outcome = "ok"
                /\ inp # <<>>
                /\ \A i \in 1..Len(inp) : inp[i].complete
        status == IF good THEN 0 ELSE IF outcome = "unavailable" THEN 127 ELSE 1
        out == TempVideoPath(obj)
        fs1 == IF good THEN FsWrite(st.fs, out, Mp4File(inp, obj.fps, TRUE))
               ELSE IF outcome = "error_partial" /\ inp # <<>>
               THEN FsWrite(st.fs, out, Mp4File(inp, obj.fps, FALSE))
               ELSE st.fs
        read == IF outcome = "unavailable" THEN <<>>
                ELSE Concat([i \in 1..Len(inp) |-> inp[i].frames])
    IN [st EXCEPT !.fs = fs1,
                  !.events = Append(@, Event("ffmpeg", status, read, obj.fps))]

\* (mutant) the video is moved into the current directory under its
\* temporary name instead of to video_path
RunMv_ToCwd(st, obj, writable) ==
    LET src == TempVideoPath(obj)
        dst == [dir |-> "cwd", name |-> src.name]
    IN IF src \in DOMAIN st.fs /\ writable
       THEN [st EXCEPT !.fs = FsWrite(FsRemove(st.fs, {src}), dst, st.fs[src]),
                       !.moved = TRUE,
                       !.events = Append(@, Event("mv", 0, <<>>, 0))]
       ELSE [st EXCEPT !.events = Append(@, Event("mv", 1, <<>>, 0))]

\* os.system("mv temp_path/temp_video_name.mp4 video_path")
RunMv(st, obj, writable) ==
    LET src == TempVideoPath(obj)
        ok == src \in DOMAIN st.fs /\ writable
    IN IF ok
       THEN [st EXCEPT !.fs = FsWrite(FsRemove(st.fs, {src}), obj.video_path,
                                      st.fs[src]),
                       !.moved = TRUE,
                       !.events = Append(@, Event("mv", 0, <<>>, 0))]
       ELSE [st EXCEPT !.events = Append(@, Event("mv", 1, <<>>, 0))]

\* self.temp_path_context_manager.__exit__(...): the directory and all
\* that is in it are removed
RunCleanup(st, obj) ==
    LET d == obj.temp_path_context_manager
    IN [st EXCEPT !.fs = FsRemove(st.fs, FilesIn(st.fs, d)),
                  !.tmpdirs = @ \ {d},
                  !.events = Append(@, Event("cleanup", 0, <<>>, 0))]

\* the answers ffmpeg can get: it cannot succeed without input frames or on
\* a frame file that was cut short
FfmpegOutcomes(fsys, obj) ==
    LET inp == ReadFrames(fsys, obj.temp_path, obj.prefix, 0)
    IN IF inp # <<>> /\ \A i \in 1..Len(inp) : inp[i].complete
       THEN EncoderOutcomes
       ELSE EncoderOutcomes \ {"ok"}

\* (mutant) the directory is released only when the encoder succeeded
Finalize_NoReleaseOnFailure(st, obj, outcome, writable) ==
    LET st1 == RunFfmpeg(st, obj, outcome)
        st2 == RunMv(st1, obj, writable)
    IN IF st1.events[Len(st1.events)].status = 0 THEN RunCleanup(st2, obj)
       ELSE st2

\* (mutant) the relocation is attempted before the encoder has run
Finalize_MvFirst(st, obj, outcome, writable) ==
    RunCleanup(RunFfmpeg(RunMv(st, obj, writable), obj, outcome), obj)

\* lines 72-79: encode, then relocate, then release
Finalize(st, obj, outcome, writable) ==
    RunCleanup(RunMv(RunFfmpeg(st, obj, outcome), obj, writable), obj)

\* (mutant) __exit__ returns a true value when an exception is in flight
ExitReturns_Suppress(exc) == exc # "None"

\* what __exit__ returns: it has no return statement, and
\* TemporaryDirectory.__exit__ returns None
ExitReturns(exc) == FALSE

\* the with statement: the exception in flight propagates unless
\* __exit__ returned a true value
Propagated(exc, returned) == IF returned THEN "None" ELSE exc

\* the exceptions the scope of session s can be left with
ExitExceptions(s) == {"None", "BodyError"} \cup {stepRaised[s]}

\* (mutant) the test of lines 70-71 left out
NotEntered_Never(obj) == FALSE

\* self.temp_path_context_manager is None: __enter__ has not run
NotEntered(obj) == obj.temp_path_context_manager = "None"

\* __exit__(exc_type, exc_value, traceback) called on the enter-object
SaveToVid_exit(s) ==
    /\ pc[s] \in {"constructed", "active"}
    /\ IF NotEntered(enterObj[s])
       THEN /\ result' = [result EXCEPT ![s] = "RuntimeError"]
            /\ UNCHANGED <<fs, tmpdirs, log, inflight, lastMoved, pc>>
       ELSE \E exc \in ExitExceptions(s),
               outcome \in FfmpegOutcomes(fs, enterObj[s]),
               writable \in BOOLEAN :
              LET st0 == [fs |-> fs, tmpdirs |-> tmpdirs, events |-> <<>>,
                          moved |-> FALSE]
                  st == Finalize(st0, enterObj[s], outcome, writable)
              IN /\ fs' = st.fs
                 /\ tmpdirs' = st.tmpdirs
                 /\ log' = [log EXCEPT ![s] = @ \o st.events]
                 /\ lastMoved' = IF st.moved THEN s ELSE lastMoved
                 /\ inflight' = [inflight EXCEPT ![s] = exc]
                 /\ result' = [result EXCEPT
                                 ![s] = Propagated(exc, ExitReturns(exc))]
                 /\ pc' = [pc EXCEPT ![s] = "exited"]
    /\ UNCHANGED <<visualizer, enterObj, entered, nextTmp, stepLog, stepRaised>>
    /\ UNCHANGED nonVideoVars

Next ==
    \/ \E f \in VideoFpsValues : VideoVisualizer_init(f)
    \/ \E s \in Sessions : VideoVisualizer_enter(s)
    \/ \E s \in Sessions : SaveToVid_enter(s)
    \/ \E s \in Sessions : SaveInDir_step(s)
    \/ \E s \in Sessions : SaveToVid_exit(s)

Spec == Init /\ [][Next]_vars

----------------------------------------------------------------------------
(* LiveVideoVisualizer *)

LiveFpsValues == 1..MaxLiveFps \cup {DemoFps, DefaultFps}

\* LiveVideoVisualizer.__init__
LiveVideoVisualizer_init(f) ==
    /\ ~liveVis.made
    /\ liveVis' = [made |-> TRUE, fps |-> f]
    /\ UNCHANGED <<liveEnterObj, liveEntered, livePc, liveCalls, liveClock,
                   liveLast, liveInflight, liveResult>>
    /\ UNCHANGED nonLiveVars

\* LiveVideoVisualizer.enter(fig)
LiveVideoVisualizer_enter ==
    /\ liveVis.made
    /\ livePc = "none"
    /\ liveEnterObj' = [fps |-> liveVis.fps]
    /\ livePc' = "constructed"
    /\ UNCHANGED <<liveVis, liveEntered, liveCalls, liveClock, liveLast,
                   liveInflight, liveResult>>
    /\ UNCHANGED nonLiveVars

\* _LiveVideoEnterVisualizer.__enter__
LiveVideo_enter ==
    /\ livePc = "constructed"
    /\ liveEntered' = [fps |-> liveEnterObj.fps]
    /\ livePc' = "active"
    /\ UNCHANGED <<liveVis, liveEnterObj, liveCalls, liveClock, liveLast,
                   liveInflight, liveResult>>
    /\ UNCHANGED nonLiveVars

\* durations are rationals <<numerator, denominator>>
RatAdd(a, b) == <<a[1] * b[2] + b[1] * a[2], a[2] * b[2]>>

\* (mutant) plt.pause(self.fps)
PauseDuration_Fps(fps) == <<fps, 1>>

\* plt.pause(1/self.fps): how long the caller is suspended
PauseDuration(fps) == <<1, fps>>

\* _LiveVideoEnteredVisualizer.step: on the handle, inside the scope or
\* after it; the method reads self.fps and nothing else
LiveVideo_step ==
    /\ livePc \in {"active", "exited"}
    /\ liveCalls < MaxLiveSteps
    /\ liveClock' = RatAdd(liveClock, PauseDuration(liveEntered.fps))
    /\ liveLast' = [afterExit |-> livePc = "exited", raised |-> "None",
                    blocked |-> PauseDuration(liveEntered.fps)]
    /\ liveCalls' = liveCalls + 1
    /\ UNCHANGED <<liveVis, liveEnterObj, liveEntered, livePc, liveInflight,
                   liveResult>>
    /\ UNCHANGED nonLiveVars

\* what _LiveVideoEnterVisualizer.__exit__ returns: its body is "..."
LiveExitReturns(exc) == FALSE

\* _LiveVideoEnterVisualizer.__exit__
LiveVideo_exit ==
    /\ livePc = "active"
    /\ \E exc \in {"None", "BodyError"} :
         /\ liveInflight' = exc
         /\ liveResult' = Propagated(exc, LiveExitReturns(exc))
    /\ livePc' = "exited"
    /\ UNCHANGED <<liveVis, liveEnterObj, liveEntered, liveCalls, liveClock,
                   liveLast>>
    /\ UNCHANGED nonLiveVars

NextLive ==
    \/ \E f \in LiveFpsValues : LiveVideoVisualizer_init(f)
    \/ LiveVideoVisualizer_enter
    \/ LiveVideo_enter
    \/ LiveVideo_step
    \/ LiveVideo_exit

SpecLive == Init /\ [][NextLive]_vars

----------------------------------------------------------------------------
(* ShowVisualizer *)

\* ShowVisualizer.__init__
ShowVisualizer_init ==
    /\ ~showVis.made
    /\ showVis' = [made |-> TRUE]
    /\ UNCHANGED <<showEnterObj, showEntered, showPc, showAt, showCalls,
                   showTrace, showLast, stdinLines, stdinTyped, stdinClosed,
                   showInflight, showResult>>
    /\ UNCHANGED nonShowVars

\* ShowVisualizer.enter(fig)
ShowVisualizer_enter ==
    /\ showVis.made
    /\ showPc = "none"
    /\ showEnterObj' = [figure |-> "fig"]
    /\ showPc' = "constructed"
    /\ UNCHANGED <<showVis, showEntered, showAt, showCalls, showTrace, showLast,
                   stdinLines, stdinTyped, stdinClosed, showInflight,
                   showResult>>
    /\ UNCHANGED nonShowVars

\* _ShowEnterVisualizer.__enter__
Show_enter ==
    /\ showPc = "constructed"
    /\ showEntered' = [fig |-> showEnterObj.figure]
    /\ showPc' = "active"
    /\ UNCHANGED <<showVis, showEnterObj, showAt, showCalls, showTrace,
                   showLast, stdinLines, stdinTyped, stdinClosed, showInflight,
                   showResult>>
    /\ UNCHANGED nonShowVars

\* (mutant) step() without its last statement
ShowStepBody_NoInput ==
    <<[fn |-> "show", arg |-> "block=False"],
      [fn |-> "pause", arg |-> "0.001"],
      [fn |-> "print", arg |-> "Press any key to continue..."]>>

\* the statements of _ShowEnteredVisualizer.step, in order
ShowStepBody ==
    <<[fn |-> "show", arg |-> "block=False"],
      [fn |-> "pause", arg |-> "0.001"],
      [fn |-> "print", arg |-> "Press any key to continue..."],
      [fn |-> "input", arg |-> ""]>>

\* the caller calls step() on the handle, inside the scope or after it
ShowStep_call ==
    /\ showPc \in {"active", "exited"}
    /\ showAt = 0
    /\ showCalls < MaxShowSteps
    /\ showCalls' = showCalls + 1
    /\ showAt' = 1
    /\ showTrace' = Append(showTrace, "call")
    /\ UNCHANGED <<showVis, showEnterObj, showEntered, showPc, showLast,
                   stdinLines, stdinTyped, stdinClosed, showInflight,
                   showResult>>
    /\ UNCHANGED nonShowVars

\* plt.show(block=False), plt.pause(0.001), print(...): each returns
ShowStep_statement ==
    /\ showAt \in 1..Len(ShowStepBody)
    /\ ShowStepBody[showAt].fn # "input"
    /\ showTrace' = Append(showTrace, ShowStepBody[showAt].fn)
    /\ showAt' = showAt + 1
    /\ UNCHANGED <<showVis, showEnterObj, showEntered, showPc, showCalls,
                   showLast, stdinLines, stdinTyped, stdinClosed, showInflight,
                   showResult>>
    /\ UNCHANGED nonShowVars

\* input(): a line is there to read; it is taken and input() returns
ShowStep_input ==
    /\ showAt \in 1..Len(ShowStepBody)
    /\ ShowStepBody[showAt].fn = "input"
    /\ stdinLines > 0
    /\ stdinLines' = stdinLines - 1
    /\ showTrace' = Append(showTrace, "input")
    /\ showAt' = showAt + 1
    /\ UNCHANGED <<showVis, showEnterObj, showEntered, showPc, showCalls,
                   showLast, stdinTyped, stdinClosed, showInflight, showResult>>
    /\ UNCHANGED nonShowVars

\* input(): standard input is at its end with no line left; EOFError
ShowStep_input_eof ==
    /\ showAt \in 1..Len(ShowStepBody)
    /\ ShowStepBody[showAt].fn = "input"
    /\ stdinLines = 0
    /\ stdinClosed
    /\ showTrace' = showTrace \o <<"input", "raise">>
    /\ showAt' = 0
    /\ showLast' = "EOFError"
    /\ UNCHANGED <<showVis, showEnterObj, showEntered, showPc, showCalls,
                   stdinLines, stdinTyped, stdinClosed, showInflight,
                   showResult>>
    /\ UNCHANGED nonShowVars

\* step() falls off its end and returns None
ShowStep_return ==
    /\ showAt = Len(ShowStepBody) + 1
    /\ showTrace' = Append(showTrace, "return")
    /\ showAt' = 0
    /\ showLast' = "returned"
    /\ UNCHANGED <<showVis, showEnterObj, showEntered, showPc, showCalls,
                   stdinLines, stdinTyped, stdinClosed, showInflight,
                   showResult>>
    /\ UNCHANGED nonShowVars

\* the operator types a line, at any time (standard input is buffered)
Operator_types ==
    /\ ~stdinClosed
    /\ stdinTyped < MaxLines
    /\ stdinLines' = stdinLines + 1
    /\ stdinTyped' = stdinTyped + 1
    /\ UNCHANGED <<showVis, showEnterObj, showEntered, showPc, showAt,
                   showCalls, showTrace, showLast, stdinClosed, showInflight,
                   showResult>>
    /\ UNCHANGED nonShowVars

\* the operator ends standard input
Operator_closes ==
    /\ ~stdinClosed
    /\ stdinClosed' = TRUE
    /\ UNCHANGED <<showVis, showEnterObj, showEntered, showPc, showAt,
                   showCalls, showTrace, showLast, stdinLines, stdinTyped,
                   showInflight, showResult>>
    /\ UNCHANGED nonShowVars

\* what _ShowEnterVisualizer.__exit__ returns: its body is "..."
ShowExitReturns(exc) == FALSE

\* the exceptions the display scope can be left with
ShowExitExceptions ==
    {"None", "BodyError"} \cup (IF showLast = "EOFError" THEN {"EOFError"} ELSE {})

\* _ShowEnterVisualizer.__exit__: the body of the with statement is over
Show_exit ==
    /\ showPc = "active"
    /\ showAt = 0
    /\ \E exc \in ShowExitExceptions :
         /\ showInflight' = exc
         /\ showResult' = Propagated(exc, ShowExitReturns(exc))
    /\ showPc' = "exited"
    /\ UNCHANGED <<showVis, showEnterObj, showEntered, showAt, showCalls,
                   showTrace, showLast, stdinLines, stdinTyped, stdinClosed>>
    /\ UNCHANGED nonShowVars

NextShow ==
    \/ ShowVisualizer_init
    \/ ShowVisualizer_enter
    \/ Show_enter
    \/ ShowStep_call
    \/ ShowStep_statement
    \/ ShowStep_input
    \/ ShowStep_input_eof
    \/ ShowStep_return
    \/ Operator_types
    \/ Operator_closes
    \/ Show_exit

\* a step() that can go on does go on: the interpreter runs the next
\* statement, and input() returns when a line is there
ShowFairness ==
    /\ WF_vars(ShowStep_statement)
    /\ WF_vars(ShowStep_input)
    /\ WF_vars(ShowStep_input_eof)
    /\ WF_vars(ShowStep_return)

SpecShow == Init /\ [][NextShow]_vars /\ ShowFairness

----------------------------------------------------------------------------
(* A long directory-backed session: the index and the file names of        *)
(* _SaveInDirEnteredVisualizer.step alone, started after any number of     *)
(* frames (the files themselves are left out).                             *)

\* prefix: str = "image"
DefaultPrefix == "image"

\* the numbers of frames the long session may have recorded at the start
NameStarts ==
    (0..NameSpan) \cup
    UNION {((10 ^ k) - NameSpan)..((10 ^ k) + NameSpan) : k \in 1..PadWidth}

\* a frame step() recorded at the given index
Recorded(index) ==
    [index |-> index, name |-> FrameFileName(DefaultPrefix, index)]

\* the session has made nmIndex successful step() calls; nmHist is empty or
\* holds one of the frames recorded by them
InitNames ==
    /\ InitVideo
    /\ InitLive
    /\ InitShow
    /\ nmIndex \in NameStarts
    /\ nmHist \in {<<>>} \cup {<<Recorded(e)>> : e \in {x \in NameStarts : x < nmIndex}}
    /\ nmCalls = 0

\* _SaveInDirEnteredVisualizer.step: the name it formats and the index it
\* leaves
LongSession_step ==
    /\ nmCalls < MaxNameSteps
    /\ \E outcome \in WriteOutcomes :
         LET raised == outcome # "ok"
         IN /\ nmHist' = IF raised THEN nmHist
                          ELSE Append(nmHist, Recorded(nmIndex))
            /\ nmIndex' = IndexAfterStep(nmIndex, raised)
    /\ nmCalls' = nmCalls + 1
    /\ UNCHANGED nonNameVars

NextNames == LongSession_step

SpecNames == InitNames /\ [][NextNames]_vars

----------------------------------------------------------------------------
(* What the properties below read off the state. *)

\* the commands session s has run, in order
Cmds(s) == [i \in 1..Len(log[s]) |-> log[s][i].cmd]

\* the one event of session s for cmd (only where it has run)
EventOf(s, cmd) == SelectSeq(log[s], LAMBDA e : e.cmd = cmd)[1]

Exited(s) == pc[s] = "exited"

EncodeStatus(s) == EventOf(s, "ffmpeg").status

MvStatus(s) == EventOf(s, "mv").status

\* the name "<prefix>000i.png", written out digit by digit (i < 10)
ExpectedName(prefix, i) == [stem |-> prefix, num |-> <<0, 0, 0, i>>, ext |-> ".png"]

\* how many of the step() calls of session s returned normally
Written(s) == Len(SelectSeq(stepLog[s], LAMBDA c : ~c.raised))

\* the frames of the step() calls of session s that returned normally, in
\* call order (calls are counted from 0)
FramesWritten(s) ==
    LET ok == SelectSeq([j \in 1..Len(stepLog[s]) |-> j],
                        LAMBDA j : ~stepLog[s][j].raised)
    IN [i \in 1..Len(ok) |-> [sess |-> s, frame |-> ok[i] - 1]]

AllWritesSucceeded(s) == \A i \in 1..Len(stepLog[s]) : ~stepLog[s][i].raised

\* the files that are not inside an existing temporary directory
FilesOutsideScratch == {p \in DOMAIN fs : p.dir \notin tmpdirs}

\* the files that hold a frame of session s
FilesOfSession(s) ==
    {p \in DOMAIN fs : \E i \in 1..Len(fs[p].frames) : fs[p].frames[i].sess = s}

----------------------------------------------------------------------------
(* C1: after N step() calls on a directory-backed session, all of whose    *)
(* writes succeeded, the directory holds exactly N files, named            *)
(* <prefix>0000.png .. <prefix>(N-1).png with 4-digit zero-padded indices, *)
(* the i-th call's frame under index i, no index skipped or used twice.    *)
C1_ExactlyNFrameFiles ==
    \A s \in Sessions :
      (pc[s] = "active" /\ AllWritesSucceeded(s)) =>
        LET N == Len(stepLog[s])
            dir == entered[s].save_dir
            prefix == entered[s].prefix
        IN /\ entered[s].index = N
           /\ Cardinality(FilesIn(fs, dir)) = N
           /\ FilesIn(fs, dir) =
                {[dir |-> dir, name |-> ExpectedName(prefix, i)] : i \in 0..(N - 1)}
           /\ \A i \in 0..(N - 1) :
                /\ stepLog[s][i + 1].name = ExpectedName(prefix, i)
                /\ fs[[dir |-> dir, name |-> ExpectedName(prefix, i)]]
                     = PngFile(s, i, TRUE)

\* a session that has written two or more frames, every write succeeding
C1_Witness ==
    \E s \in Sessions :
      pc[s] = "active" /\ AllWritesSucceeded(s) /\ Len(stepLog[s]) >= 2

----------------------------------------------------------------------------
----------------------------------------------------------------------------
(* C3 as stated: when the encoder is unavailable or exits non-zero during  *)
(* the exit of a scope that was left normally, the scratch directory is    *)
(* released and the caller observes an encode failure raised from the      *)
(* scope exit.                                                             *)
C3_EncodeFailureObserved ==
    \A s \in Sessions :
      (Exited(s) /\ inflight[s] = "None" /\ EncodeStatus(s) # 0) =>
        /\ enterObj[s].temp_path \notin tmpdirs
        /\ result[s] = "EncodeFailure"

----------------------------------------------------------------------------
(* C5 as stated, in the part that fails: every session that has exited     *)
(* with its video encoded and relocated has its own output file, a video   *)
(* of its own frames, in the file system (two sessions, two files).        *)
C5_Original ==
    \A s \in Sessions :
      (Exited(s) /\ EncodeStatus(s) = 0 /\ MvStatus(s) = 0) =>
        \E p \in DOMAIN fs :
          /\ fs[p].kind = "mp4"
          /\ fs[p].frames = FramesWritten(s)

(* C5 as amended: two sessions of one VideoVisualizer, interleaved in any  *)
(* way, have distinct scratch directories; each keeps its own index, from  *)
(* 0, counting its own successful writes; the encoder of each is given     *)
(* only that session's frames, at the configured rate; the recorder's      *)
(* configuration stays as constructed and is what every enter-object       *)
(* holds; and each successful finalization puts the session's own video at *)
(* the one shared video_path, which therefore holds the video of the       *)
(* session that relocated last, not one file per session.                  *)
C5_SessionsIndependent ==
    /\ \A s, t \in Sessions :
         (s # t /\ enterObj[s].temp_path # "None" /\ enterObj[t].temp_path # "None")
           => enterObj[s].temp_path # enterObj[t].temp_path
    /\ \A s \in Sessions :
         /\ pc[s] \in {"active", "exited"} =>
              /\ entered[s].index = Written(s)
              /\ entered[s].save_dir = enterObj[s].temp_path
              /\ stepLog[s] # <<>> => stepLog[s][1].index = 0
         /\ \A p \in FilesIn(fs, enterObj[s].temp_path) :
              \A i \in 1..Len(fs[p].frames) : fs[p].frames[i].sess = s
         /\ Exited(s) =>
              /\ EventOf(s, "ffmpeg").fps = visualizer.fps
              /\ \A i \in 1..Len(EventOf(s, "ffmpeg").frames) :
                   EventOf(s, "ffmpeg").frames[i].sess = s
              /\ EncodeStatus(s) = 0 => EventOf(s, "ffmpeg").frames = FramesWritten(s)
         /\ (Exited(s) /\ lastMoved = s /\ EncodeStatus(s) = 0) =>
              /\ fs[visualizer.video_path].frames = FramesWritten(s)
              /\ fs[visualizer.video_path].fps = visualizer.fps
              /\ fs[visualizer.video_path].complete
         /\ pc[s] # "none" =>
              /\ enterObj[s].video_path = visualizer.video_path
              /\ enterObj[s].fps = visualizer.fps
              /\ enterObj[s].dpi = visualizer.dpi
    /\ visualizer.made =>
         /\ visualizer.video_path = VideoPath
         /\ visualizer.fps \in VideoFpsValues
         /\ visualizer.dpi = DefaultDpi

\* both sessions were active at once, both wrote a frame, and both have
\* finalized with success
C5_Witness ==
    /\ \A s \in Sessions :
         /\ Exited(s) /\ EncodeStatus(s) = 0 /\ MvStatus(s) = 0
         /\ entered[s].index >= 1
    /\ lastMoved = 1

----------------------------------------------------------------------------
----------------------------------------------------------------------------
(* C8 as stated, in the part that fails: once the write of a step() call   *)
(* has failed, no later step() call of the session writes its frame under  *)
(* the file name of the failed frame.                                      *)
C8_Original ==
    \A s \in Sessions :
      \A i, j \in 1..Len(stepLog[s]) :
        (i < j /\ stepLog[s][i].raised /\ ~stepLog[s][j].raised)
          => stepLog[s][j].name # stepLog[s][i].name

(* C8 as amended: a failed write propagates out of that step() call with   *)
(* no retry and leaves the index as it was (neither advanced nor           *)
(* decremented), so the next step() call uses the file name of the failed  *)
(* frame again; a successful call advances the index by one.               *)
C8_FailedWriteKeepsIndex ==
    \A s \in Sessions :
      /\ \A i \in 1..Len(stepLog[s]) :
           /\ stepLog[s][i].name = ExpectedName(entered[s].prefix, stepLog[s][i].index)
           /\ stepLog[s][i].index =
                IF i = 1 THEN 0
                ELSE IF stepLog[s][i - 1].raised THEN stepLog[s][i - 1].index
                ELSE stepLog[s][i - 1].index + 1
      /\ stepLog[s] # <<>> =>
           LET last == stepLog[s][Len(stepLog[s])]
           IN /\ entered[s].index = IF last.raised THEN last.index ELSE last.index + 1
              /\ stepRaised[s] = IF last.raised THEN "OSError" ELSE "None"

\* a frame written, inside the scope, under the name of a frame whose
\* write had failed
C8_Witness ==
    \E s \in Sessions :
      \E i \in 1..Len(stepLog[s]) :
        /\ i + 1 <= Len(stepLog[s])
        /\ stepLog[s][i].raised /\ ~stepLog[s][i + 1].raised
        /\ stepLog[s][i + 1].name = stepLog[s][i].name
        /\ stepLog[s][i].index >= 1

----------------------------------------------------------------------------
(* C9: the commands of a video session are, in this order and each exactly *)
(* once, the creation of the scratch directory at scope entry and then, at *)
(* scope exit, the encoder, the relocation and the release of the scratch  *)
(* directory; nothing has run before the entry, only the creation while    *)
(* the scope is active, whatever the exception and the number of frames.   *)
C9_FinalizationOrder ==
    \A s \in Sessions :
      /\ pc[s] \in {"none", "constructed"} => Cmds(s) = <<>>
      /\ pc[s] = "active" => Cmds(s) = <<"mkdtemp">>
      /\ Exited(s) =>
           /\ Cmds(s) = <<"mkdtemp", "ffmpeg", "mv", "cleanup">>
           /\ MvStatus(s) = 0 => EventOf(s, "ffmpeg").frames # <<>>
           /\ EncodeStatus(s) = 0 => EventOf(s, "ffmpeg").frames = FramesWritten(s)

\* a scope left with an exception and no frame at all, finalized
C9_Witness ==
    \E s \in Sessions :
      /\ Exited(s) /\ inflight[s] = "BodyError" /\ entered[s].index = 0
      /\ Len(log[s]) = 4
    /\ \E t \in Sessions : Exited(t) /\ inflight[t] = "None" /\ MvStatus(t) = 0

----------------------------------------------------------------------------
(* C10 as stated: when the encoder succeeded and the relocation failed, in *)
(* a scope that was left normally, the caller observes a relocation        *)
(* failure, which an encode failure is not.                                *)
C10_RelocationFailureObserved ==
    \A s \in Sessions :
      (Exited(s) /\ inflight[s] = "None" /\ EncodeStatus(s) = 0 /\ MvStatus(s) # 0) =>
        /\ enterObj[s].temp_path \notin tmpdirs
        /\ result[s] = "RelocationFailure"

----------------------------------------------------------------------------
(* C4 as stated, for the live variant: a step() call made on the handle    *)
(* after its scope has ended raises a precondition failure and does not    *)
(* block.                                                                  *)
C4_StepAfterScopeRaises ==
    liveLast.afterExit =>
      /\ liveLast.raised = "PreconditionFailure"
      /\ liveLast.blocked = <<0, 1>>

----------------------------------------------------------------------------
(* C6: after K step() calls on a live session the caller has been          *)
(* suspended for K x 1/fps in all, fps being the configured rate, each     *)
(* call for 1/fps; no file and no directory was written or removed, no     *)
(* command run; the handle holds the rate and no per-frame state; and the  *)
(* scope exit does nothing but let the exception in flight through.        *)
C6_LivePausesOnly ==
    /\ livePc \in {"active", "exited"} =>
         /\ liveEntered = [fps |-> liveVis.fps]
         /\ liveClock[1] * liveVis.fps = liveCalls * liveClock[2]
         /\ liveCalls > 0 => liveLast.blocked[1] * liveVis.fps = liveLast.blocked[2]
    /\ livePc # "exited" => liveResult = "pending"
    /\ livePc = "exited" => liveResult = liveInflight
    /\ DOMAIN fs \subseteq {VideoPath}
    /\ VideoPath \in DOMAIN fs => fs[VideoPath] = StaleFile
    /\ tmpdirs = {}
    /\ \A s \in Sessions : log[s] = <<>>

\* a live scope in which step() was called three times, then left
C6_Witness ==
    /\ livePc = "exited"
    /\ liveCalls >= 3
    /\ ~liveLast.afterExit
    /\ liveVis.fps = DefaultFps

----------------------------------------------------------------------------
(* The order of file names as strings. *)

\* the characters after the prefix, as code points: the digits, then the
\* extension ".png"
SuffixCodes(name) ==
    [i \in 1..Len(name.num) |-> 48 + name.num[i]] \o <<46, 112, 110, 103>>

RECURSIVE SeqLess(_, _)
SeqLess(x, y) ==
    IF y = <<>> THEN FALSE
    ELSE IF x = <<>> THEN TRUE
    ELSE IF Head(x) # Head(y) THEN Head(x) < Head(y)
    ELSE SeqLess(Tail(x), Tail(y))

\* a sorts strictly before b as a string (both have the same prefix)
LexLess(a, b) ==
    /\ a.stem = b.stem
    /\ a.ext = ".png" /\ b.ext = ".png"
    /\ SeqLess(SuffixCodes(a), SuffixCodes(b))

(* C11: of any two frames recorded in one session the earlier has the     *)
(* smaller index and the file name that sorts strictly first as a string,  *)
(* whatever the number of frames, beyond 10000 too.                        *)
C11_NamesSortInCaptureOrder ==
    \A a, b \in 1..Len(nmHist) :
      a < b =>
        /\ nmHist[a].index < nmHist[b].index
        /\ LexLess(nmHist[a].name, nmHist[b].name)

----------------------------------------------------------------------------
\* the files of the scratch directory of session s that the input pattern
\* of its encoder, <temp_path>/<prefix>%04d.png, matches
PatternFiles(s) ==
    {p \in FilesIn(fs, enterObj[s].temp_path) :
       /\ p.name.stem = enterObj[s].prefix
       /\ p.name.ext = ".png"
       /\ \E i \in 0..MaxSteps : p.name.num = Format04d(i)}

(* C12: when __exit__ of a video session invokes the encoder, the files of *)
(* the scratch directory that match the input pattern are exactly the      *)
(* frames this session's step() calls wrote completely, under the indices  *)
(* 0, 1, .. in capture order; none is cut short and none is another        *)
(* session's.                                                              *)
C12_EncoderSeesOnlyCompleteOwnFrames ==
    [][\A s \in Sessions :
         (pc[s] = "active" /\ pc'[s] = "exited") =>
           LET fw == FramesWritten(s)
               dir == enterObj[s].temp_path
               prefix == enterObj[s].prefix
           IN /\ PatternFiles(s) =
                   {FramePath(dir, prefix, i) : i \in 0..(Len(fw) - 1)}
              /\ \A i \in 0..(Len(fw) - 1) :
                   fs[FramePath(dir, prefix, i)] =
                     PngFile(s, fw[i + 1].frame, TRUE)]_vars

----------------------------------------------------------------------------
\* the display step() is at its input() call
AtInput ==
    /\ showAt \in 1..Len(ShowStepBody)
    /\ ShowStepBody[showAt].fn = "input"

\* how often x occurs in the trace tr
Count(tr, x) == Len(SelectSeq(tr, LAMBDA e : e = x))

\* what comes right before each entry of the trace of the display step()
ShowCallsInOrder ==
    \A i \in 1..Len(showTrace) :
      LET e == showTrace[i]
          before == IF i = 1 THEN "nothing" ELSE showTrace[i - 1]
      IN /\ e = "call" => before \in {"nothing", "return", "raise"}
         /\ e = "show" => before = "call"
         /\ e = "pause" => before = "show"
         /\ e = "print" => before = "pause"
         /\ e = "input" => before = "print"
         /\ e = "return" => before = "input"
         /\ e = "raise" => before = "input"

\* every input() that returned took one line the operator had typed, so
\* step() has returned at most as often as the operator has signalled
ShowReturnsAreSignalled ==
    /\ Count(showTrace, "input") - Count(showTrace, "raise")
         = stdinTyped - stdinLines
    /\ Count(showTrace, "return") <= stdinTyped - stdinLines
    /\ stdinLines >= 0

\* input() is left only with a line of the operator (or at the end of
\* standard input, by EOFError): time alone never ends the wait; no step
\* touches a file; __exit__ makes no call and suppresses nothing
ShowStepEffects ==
    /\ (AtInput /\ showAt' # showAt) =>
         \/ stdinLines > 0 /\ stdinLines' = stdinLines - 1 /\ showAt' = showAt + 1
         \/ stdinLines = 0 /\ stdinClosed /\ showLast' = "EOFError" /\ showAt' = 0
    /\ fs' = fs /\ tmpdirs' = tmpdirs /\ log' = log
    /\ (showPc = "active" /\ showPc' = "exited") =>
         /\ showTrace' = showTrace
         /\ stdinLines' = stdinLines
         /\ showResult' = showInflight'

(* C13: each step() of a display session calls plt.show(block=False), then *)
(* plt.pause(0.001), then (after the prompt) input(), in this order; it    *)
(* returns only after input() has taken a line typed by the operator, it   *)
(* does return once such a line is there, nothing else ends the wait (no   *)
(* timeout), no file is written, and __exit__ does nothing but let the     *)
(* exception in flight propagate.                                          *)
C13_DisplayStepWaitsForOperator ==
    /\ [](ShowCallsInOrder /\ ShowReturnsAreSignalled)
    /\ [][ShowStepEffects]_vars
    /\ (AtInput /\ stdinLines > 0) ~> (showAt = 0 /\ showLast = "returned")

\* two step() calls, each released by a line of the operator, the second
\* line typed only while step() was waiting; then the scope was left
C13_Witness ==
    /\ showPc = "exited"
    /\ showResult = "None"
    /\ showTrace = <<"call", "show", "pause", "print", "input", "return",
                     "call", "show", "pause", "print", "input", "return">>
    /\ stdinTyped = 2
    /\ stdinLines = 0

----------------------------------------------------------------------------
(* C14: when __exit__ of a video session runs with a file from before the  *)
(* session at video_path and the encoder fails, the file is the same       *)
(* afterwards and the caller observes only what the body raised; when the  *)
(* encoder and the relocation succeed, the file at video_path afterwards   *)
(* is the video of this session's frames, whatever was there before.       *)
C14_StaleFileKeptOnEncodeFailure ==
    [][\A s \in Sessions :
         (pc[s] = "active" /\ pc'[s] = "exited") =>
           LET vp == enterObj[s].video_path
           IN /\ (EncodeStatus(s)' # 0 /\ vp \in DOMAIN fs /\ fs[vp] = StaleFile) =>
                   /\ vp \in DOMAIN fs'
                   /\ fs'[vp] = StaleFile
                   /\ result'[s] = inflight'[s]
              /\ (EncodeStatus(s)' = 0 /\ MvStatus(s)' = 0) =>
                   /\ vp \in DOMAIN fs'
                   /\ fs'[vp] = [kind |-> "mp4", frames |-> FramesWritten(s),
                                 complete |-> TRUE, fps |-> enterObj[s].fps]]_vars

----------------------------------------------------------------------------
\* the frames the encoder of session s may have read, given that the
\* scratch directory held the k frames written and at most one file more,
\* cut short by a step() call that raised
FramesEncodable(s) ==
    {FramesWritten(s)} \cup
    {Append(FramesWritten(s), [sess |-> s, frame |-> j - 1]) :
       j \in {i \in 1..Len(stepLog[s]) : stepLog[s][i].raised}}

(* C15: when the scope of a video session is left with an exception in     *)
(* flight (raised by step() or by the body) after k >= 0 frames were       *)
(* written, __exit__ still runs the encoder over the scratch directory,    *)
(* holding those k frames, then the relocation, then the release; when     *)
(* both commands succeed the video of exactly the k frames is at           *)
(* video_path; and the exception propagates to the caller in every case.   *)
C15_ExceptionDoesNotStopFinalization ==
    \A s \in Sessions :
      (Exited(s) /\ inflight[s] # "None") =>
        /\ Cmds(s) = <<"mkdtemp", "ffmpeg", "mv", "cleanup">>
        /\ result[s] = inflight[s]
        /\ EncodeStatus(s) # 127 => EventOf(s, "ffmpeg").frames \in FramesEncodable(s)
        /\ EncodeStatus(s) = 0 =>
             /\ Written(s) >= 1
             /\ EventOf(s, "ffmpeg").frames = FramesWritten(s)
        /\ (EncodeStatus(s) = 0 /\ MvStatus(s) = 0 /\ lastMoved = s) =>
             /\ enterObj[s].video_path \in DOMAIN fs
             /\ fs[enterObj[s].video_path] =
                  [kind |-> "mp4", frames |-> FramesWritten(s),
                   complete |-> TRUE, fps |-> enterObj[s].fps]

\* step() raised after one frame was written; the video of that frame was
\* encoded and placed at video_path, and the caller got the exception
C15_Witness ==
    \E s \in Sessions :
      /\ Exited(s) /\ inflight[s] = "OSError" /\ result[s] = "OSError"
      /\ Written(s) = 1 /\ Len(stepLog[s]) = 2 /\ stepLog[s][2].raised
      /\ EncodeStatus(s) = 0 /\ MvStatus(s) = 0 /\ lastMoved = s
      /\ fs[enterObj[s].video_path].frames = <<[sess |-> s, frame |-> 0]>>

----------------------------------------------------------------------------
(* C16: __exit__ called on a video enter-object that was never entered     *)
(* raises RuntimeError and does nothing else: no command is run (neither   *)
(* the encoder nor the relocation), no file is written or replaced, at     *)
(* video_path or elsewhere, and no temporary directory is made or removed. *)
C16_ExitBeforeEnterRaises ==
    [][\A s \in Sessions :
         pc[s] = "constructed" =>
           /\ log[s] = <<>>
           /\ enterObj[s].temp_path = "None"
           /\ result'[s] # result[s] =>
                /\ result'[s] = "RuntimeError"
                /\ fs' = fs
                /\ tmpdirs' = tmpdirs
                /\ nextTmp' = nextTmp
                /\ log' = log
                /\ lastMoved' = lastMoved
                /\ enterObj' = enterObj
                /\ pc' = pc]_vars

\* __exit__ was called on an enter-object that was never entered, while
\* another session's video is in place
C16_Witness ==
    \E s \in Sessions :
      /\ pc[s] = "constructed"
      /\ result[s] = "RuntimeError"
      /\ lastMoved # 0
      /\ VideoPath \in DOMAIN fs

====
